---- MODULE Spec2Model ----
(***************************************************************************)
(* Connected Component Finder (CCF) of ccf-project-pyspark.ipynb:          *)
(* process() and its two reducers CFF_iterate / CFF_iterate_sorting.       *)
(* An RDD of edges is a bag (multiset) of pairs <<source, target>>.        *)
(* Node identifiers are integers, as in the test graph of the notebook, so *)
(* the int() conversions of the reducers leave them as they are.           *)
(***************************************************************************)
EXTENDS Integers, Sequences, FiniteSets, Bags, TLC

\* ------------------------------------------------------------------ bounds
MaxNode == 4
MaxEdges == 4
MaxIter == 8
DupMaxNode == 3
DupMaxEdges == 3

\* ------------------------------------------------------- generic helpers
RECURSIVE SumOver(_, _)
\* sum of f[x] over x in S (RDD.sum())
SumOver(f, S) ==
  IF S = {} THEN 0
  ELSE LET x == CHOOSE y \in S : TRUE IN f[x] + SumOver(f, S \ {x})

RECURSIVE UnionOver(_, _)
\* bag union of f[x] over x in S (RDD.union / flatMap over the records)
UnionOver(f, S) ==
  IF S = {} THEN EmptyBag
  ELSE LET x == CHOOSE y \in S : TRUE IN f[x] (+) UnionOver(f, S \ {x})

RECURSIVE SeqToBag(_)
SeqToBag(s) ==
  IF s = <<>> THEN EmptyBag ELSE SetToBag({Head(s)}) (+) SeqToBag(Tail(s))

\* ------------------------------------------------------------ the stages
\* mutant: the pairs are not inverted
rdd_inv_same(rdd) == rdd

\* rdd.map(lambda x: (x[1], x[0]))
rdd_inv(rdd) ==
  [e \in {<<x[2], x[1]>> : x \in DOMAIN rdd} |-> rdd[<<e[2], e[1]>>]]

\* rdd.union(rdd_inv)   # emit pairs
emit_pairs(rdd) == rdd (+) rdd_inv(rdd)

\* keys of graph.groupByKey()
Keys(graph) == {e[1] : e \in DOMAIN graph}

\* the value list of key k after groupByKey().mapValues(list), as a bag:
\* the order of the list is not fixed by groupByKey
Values(graph, k) ==
  [v \in {e[2] : e \in {x \in DOMAIN graph : x[1] = k}} |-> graph[<<k, v>>]]

\* Python min() of a non-empty list
min(V) == CHOOSE m \in DOMAIN V : \A v \in DOMAIN V : m <= v

RECURSIVE sorted(_)
\* Python sorted() of a list: the ascending sequence of its elements
sorted(V) ==
  IF DOMAIN V = {} THEN <<>>
  ELSE LET m == min(V) IN <<m>> \o sorted(V (-) SetToBag({m}))

\* mutant: the minimum stays in the list
remove_min_keep(V, m) == V

\* [val for val in x[1] if val != x[2]]   # remove min from list
remove_min(V, m) == [v \in DOMAIN V \ {m} |-> V[v]]

\* mutant: the slice starts one element too far
drop_first_two(L) == SubSeq(L, 3, Len(L))

\* x[1][1:]   # remove min from list
drop_first(L) == SubSeq(L, 2, Len(L))

\* mutant: the filter lets vid = amin through
keep_ge(x) == x.key >= x.amin

\* graph.filter(lambda x: x[0] > x[2])   # filter out vid < amin
keep(x) == x.key > x.amin

\* records of CFF_iterate after the filter: (vid, values without min, min)
BatchRecords(rdd) ==
  LET graph == emit_pairs(rdd)
      all == {[key |-> k, rest |-> remove_min(Values(graph, k), min(Values(graph, k))),
               amin |-> min(Values(graph, k))] : k \in Keys(graph)}
  IN {x \in all : keep(x)}

\* records of CFF_iterate_sorting after the filter
SortedRecords(rdd) ==
  LET graph == emit_pairs(rdd)
      all == {[key |-> k, rest |-> drop_first(sorted(Values(graph, k))),
               amin |-> sorted(Values(graph, k))[1]] : k \in Keys(graph)}
  IN {x \in all : keep(x)}

\* mutant: the pair (vid, min) is counted too
CountBatch_plus1(recs) ==
  SumOver([x \in recs |-> BagCardinality(x.rest) + 1], recs)

\* graph.map(lambda x: len(x[1])).sum()
CountBatch(recs) == SumOver([x \in recs |-> BagCardinality(x.rest)], recs)
CountSorted(recs) == SumOver([x \in recs |-> Len(x.rest)], recs)

\* mutant: the pair (vid, min) is not emitted
emit_1_none(recs) == EmptyBag

\* mutant: the pair is emitted as (min, vid)
emit_1_swapped(recs) ==
  [e \in {<<x.amin, x.key>> : x \in recs} |-> 1]

\* emit_1 = graph.map(lambda x: (x[0], x[2]))
emit_1(recs) == UnionOver([x \in recs |-> SetToBag({<<x.key, x.amin>>})], recs)

\* emit_2 = graph.flatMap(lambda x: [(val, x[2]) for val in x[1]])
\* in CFF_iterate, where x[1] is the list without its minimum
emit_2(recs) ==
  UnionOver([x \in recs |->
               [e \in {<<v, x.amin>> : v \in DOMAIN x.rest} |-> x.rest[e[1]]]],
            recs)

\* emit_2 in CFF_iterate_sorting, where x[1] is the sorted list x[1][1:]
emit_2_sorting(recs) ==
  UnionOver([x \in recs |->
               [e \in {<<v, x.amin>> : v \in DOMAIN SeqToBag(x.rest)} |->
                  SeqToBag(x.rest)[e[1]]]],
            recs)

\* emit_tot = emit_1.union(emit_2)
emit_tot_batch(recs) == emit_1(recs) (+) emit_2(recs)
emit_tot_sorted(recs) == emit_1(recs) (+) emit_2_sorting(recs)

\* mutant: no deduplication
Dedup_none(emit_tot) == emit_tot

\* CFF-Dedup: key by the pair, groupByKey, keep the keys
Dedup(emit_tot) == SetToBag(BagToSet(emit_tot))

CFF_iterate(rdd) ==
  LET recs == BatchRecords(rdd)
  IN [new |-> Dedup(emit_tot_batch(recs)), new_pairs |-> CountBatch(recs)]

CFF_iterate_sorting(rdd) ==
  LET recs == SortedRecords(rdd)
  IN [new |-> Dedup(emit_tot_sorted(recs)), new_pairs |-> CountSorted(recs)]

\* ------------------------------------------------------------ the inputs
EdgesOver(n) == (1..n) \X (1..n)

RECURSIVE BagsUpTo(_, _)
\* all bags of at most k edges drawn from E
BagsUpTo(E, k) ==
  IF k = 0 THEN {EmptyBag}
  ELSE LET smaller == BagsUpTo(E, k - 1)
       IN smaller \cup {b (+) SetToBag({e}) : b \in smaller, e \in E}

\* graph = sc.parallelize([(1,2), (2, 3), (2, 4), (4, 5), (6, 7), (7, 8)])
TestGraph == SetToBag({<<1, 2>>, <<2, 3>>, <<2, 4>>, <<4, 5>>, <<6, 7>>, <<7, 8>>})

\* a tree on five nodes whose labels make the minimum travel slowly
DeepGraph == SetToBag({<<1, 3>>, <<2, 5>>, <<3, 5>>, <<4, 5>>})

Inputs == BagsUpTo(EdgesOver(MaxNode), MaxEdges) \cup {TestGraph, DeepGraph}

\* ------------------------------------------------------------- the state
VARIABLES
  graph,      \* the input RDD of the first call of process()
  graph2,     \* the input RDD of the second call
  call,       \* 1 or 2: which call of process() is running
  sorting,    \* the sorting argument of the running call
  rdd,        \* process(): rdd
  new_pairs,  \* process(): new_pairs
  i,          \* process(): i
  printed,    \* the "# new pairs" values printed by the running call
  pc,         \* "loop" while in the while loop, "returned" after return
  first,      \* what the first call returned, once the second one is running
  largest_component  \* the notebook's largest_component: <<>> until it is
                     \* assigned, <<n>> once it holds n

vars ==
  <<graph, graph2, call, sorting, rdd, new_pairs, i, printed, pc, first,
    largest_component>>

NoResult ==
  [output |-> EmptyBag, iters |-> 0, printed |-> <<>>, sorting |-> FALSE,
   largest_component |-> <<>>]

\* mutant: the loop stops one pair early
LoopTest_gt1(n) == n > 1

\* while new_pairs > 0
LoopTest(n) == n > 0

\* process(rdd, sorting): i = 0; new_pairs = 1
Enter(input, srt) ==
  /\ rdd' = input
  /\ sorting' = srt
  /\ new_pairs' = 1
  /\ i' = 0
  /\ printed' = <<>>
  /\ pc' = "loop"

\* the notebook: output = process(graph) comes first
Init ==
  /\ graph \in Inputs
  /\ graph2 = graph
  /\ call = 1
  /\ sorting = FALSE
  /\ rdd = graph
  /\ new_pairs = 1
  /\ i = 0
  /\ printed = <<>>
  /\ pc = "loop"
  /\ first = NoResult
  /\ largest_component = <<>>

\* mutant: the edge set is replaced only when new pairs were counted
Iterate_keep ==
  /\ pc = "loop"
  /\ LoopTest(new_pairs)
  /\ i < MaxIter
  /\ LET r == IF sorting THEN CFF_iterate_sorting(rdd) ELSE CFF_iterate(rdd)
     IN /\ rdd' = IF r.new_pairs > 0 THEN r.new ELSE rdd
        /\ new_pairs' = r.new_pairs
        /\ printed' = Append(printed, r.new_pairs)
  /\ i' = i + 1
  /\ UNCHANGED <<graph, graph2, call, sorting, pc, first, largest_component>>

\* one pass of the body of: while new_pairs > 0
Iterate ==
  /\ pc = "loop"
  /\ LoopTest(new_pairs)
  /\ i < MaxIter
  /\ LET r == IF sorting THEN CFF_iterate_sorting(rdd) ELSE CFF_iterate(rdd)
     IN /\ rdd' = r.new
        /\ new_pairs' = r.new_pairs
        /\ printed' = Append(printed, r.new_pairs)
  /\ i' = i + 1
  /\ UNCHANGED <<graph, graph2, call, sorting, pc, first, largest_component>>

\* output.groupBy(lambda x : x[1]).map(lambda x : len(x[1])): the number
\* of edges of output under each target
group_sizes(output) ==
  {BagCardinality([e \in {x \in DOMAIN output : x[2] = t} |-> output[e]]) :
     t \in {e[2] : e \in DOMAIN output}}

\* .max()
rdd_max(S) == CHOOSE m \in S : \A v \in S : m >= v

\* the cell of the batch run: largest_component = ... .max() + 1
largest_component_batch(output) == rdd_max(group_sizes(output)) + 1

\* the cell of the sorted run: largest_component = ... .max()
largest_component_sorting(output) == rdd_max(group_sizes(output))

\* the loop test fails: return rdd; the cell that called process() then
\* computes largest_component from output.  max() of an empty RDD raises
\* ValueError, which ends the cell and leaves largest_component as it was.
Return ==
  /\ pc = "loop"
  /\ ~LoopTest(new_pairs)
  /\ pc' = "returned"
  /\ largest_component' =
       IF rdd = EmptyBag THEN largest_component
       ELSE IF sorting THEN <<largest_component_sorting(rdd)>>
       ELSE <<largest_component_batch(rdd)>>
  /\ UNCHANGED <<graph, graph2, call, sorting, rdd, new_pairs, i, printed, first>>

Result ==
  [output |-> rdd, iters |-> i, printed |-> printed, sorting |-> sorting,
   largest_component |-> largest_component]

\* the notebook: output = process(graph, sorting=True) comes second
CallSorted ==
  /\ pc = "returned"
  /\ call = 1
  /\ call' = 2
  /\ first' = Result
  /\ Enter(graph2, TRUE)
  /\ UNCHANGED <<graph, graph2, largest_component>>

Next == Iterate \/ Return \/ CallSorted

Spec == Init /\ [][Next]_vars

\* Iterate changes i, so ENABLED <<Iterate>>_vars is its guard
IterateEnabled == pc = "loop" /\ LoopTest(new_pairs) /\ i < MaxIter

\* WF_vars(Iterate), with ENABLED <<Iterate>>_vars written as IterateEnabled
FairIterate == []<>(~IterateEnabled) \/ []<><<Iterate>>_vars

\* the notebook is sequential code: a cell that can run does run, and the
\* while loop of process() keeps taking its next step
LiveSpec ==
  Init /\ [][Next]_vars /\ WF_vars(Return) /\ WF_vars(CallSorted) /\ FairIterate

\* ---------------------------------- process() called on its own output
InitRerun ==
  /\ graph \in Inputs
  /\ graph2 = graph
  /\ call = 1
  /\ sorting \in BOOLEAN
  /\ rdd = graph
  /\ new_pairs = 1
  /\ i = 0
  /\ printed = <<>>
  /\ pc = "loop"
  /\ first = NoResult
  /\ largest_component = <<>>

\* output2 = process(output, sorting)
CallAgain ==
  /\ pc = "returned"
  /\ call = 1
  /\ call' = 2
  /\ first' = Result
  /\ graph2' = rdd
  /\ Enter(rdd, sorting)
  /\ UNCHANGED <<graph, largest_component>>

NextRerun == Iterate \/ Return \/ CallAgain

SpecRerun == InitRerun /\ [][NextRerun]_vars

\* ------------------- process() called on two inputs with the same edges
\* the undirected edges of an RDD of pairs
Undirected(g) == {{e[1], e[2]} : e \in DOMAIN g}

DupInputs == BagsUpTo(EdgesOver(DupMaxNode), DupMaxEdges)

InitDup ==
  /\ graph \in DupInputs
  /\ graph2 \in {g \in DupInputs : Undirected(g) = Undirected(graph)}
  /\ call = 1
  /\ sorting \in BOOLEAN
  /\ rdd = graph
  /\ new_pairs = 1
  /\ i = 0
  /\ printed = <<>>
  /\ pc = "loop"
  /\ first = NoResult
  /\ largest_component = <<>>

\* output2 = process(graph2, sorting)
CallOther ==
  /\ pc = "returned"
  /\ call = 1
  /\ call' = 2
  /\ first' = Result
  /\ Enter(graph2, sorting)
  /\ UNCHANGED <<graph, graph2, largest_component>>

NextDup == Iterate \/ Return \/ CallOther

SpecDup == InitDup /\ [][NextDup]_vars

\* ================================================================ claims
\* the nodes occurring in an RDD of edges
NodesOf(g) == {e[1] : e \in DOMAIN g} \cup {e[2] : e \in DOMAIN g}

RECURSIVE Reach(_, _)
\* the nodes connected to a node of S in g read as an undirected graph
Reach(S, g) ==
  LET more == S \cup {e[2] : e \in {x \in DOMAIN g : x[1] \in S}}
                \cup {e[1] : e \in {x \in DOMAIN g : x[2] \in S}}
  IN IF more = S THEN S ELSE Reach(more, g)

SetMin(S) == CHOOSE m \in S : \A v \in S : m <= v

\* the smallest identifier of n's connected component
ComponentMin(n, g) == SetMin(Reach({n}, g))

\* the mapping of every non-minimal node to its component's minimum
Expected(g) ==
  {e \in {<<n, ComponentMin(n, g)>> : n \in NodesOf(g)} : e[1] # e[2]}

IsSet(b) == \A e \in DOMAIN b : b[e] = 1

ExpectedTestGraph ==
  {<<2, 1>>, <<3, 1>>, <<4, 1>>, <<5, 1>>, <<7, 6>>, <<8, 6>>}

\* C1: when process() stops, with either variant, the returned edges are
\* exactly the pairs (n, m) with n a node of the input, m the smallest
\* identifier of n's connected component and n # m, each of them once;
\* for the test graph: 2,3,4,5 -> 1 and 7,8 -> 6.
C1_ReturnsComponentMinima ==
  pc = "returned" =>
    /\ IsSet(rdd)
    /\ BagToSet(rdd) = Expected(graph)
    /\ \A n \in NodesOf(graph) :
         Cardinality({e \in DOMAIN rdd : e[1] = n})
           = IF n = ComponentMin(n, graph) THEN 0 ELSE 1
    /\ graph = TestGraph => BagToSet(rdd) = ExpectedTestGraph

C1_Witness ==
  /\ pc = "returned"
  /\ call = 2
  /\ graph = TestGraph
  /\ BagToSet(rdd) = ExpectedTestGraph
  /\ first.output = rdd

\* C2: on every input, self-loops, repeated and reciprocal edges included,
\* the loop of each of the two calls of process() eventually sees a
\* new-pairs count of 0 and returns.
C2_Terminates ==
  /\ <>(call = 1 /\ ~sorting /\ pc = "returned" /\ new_pairs = 0)
  /\ <>(call = 2 /\ sorting /\ pc = "returned" /\ new_pairs = 0)

C2_Witness ==
  /\ pc = "returned"
  /\ call = 2
  /\ new_pairs = 0
  /\ i >= 2
  /\ \E e \in DOMAIN graph : graph[e] > 1
  /\ \E e \in DOMAIN graph : e[1] = e[2]
  /\ \E e \in DOMAIN graph : e[1] # e[2] /\ <<e[2], e[1]>> \in DOMAIN graph

\* C3: process(rdd) and process(rdd, sorting=True) return the same edges.
C3_SameOutput ==
  (call = 2 /\ pc = "returned") => rdd = first.output

C3_Witness ==
  /\ call = 2
  /\ pc = "returned"
  /\ sorting
  /\ ~first.sorting
  /\ rdd = first.output
  /\ BagCardinality(rdd) >= 2
  /\ \E e \in DOMAIN graph : graph[e] > 1

\* C4: the batch and the sorted variant run the same number of iterations
\* on every input.
C4_SameIterations ==
  (call = 2 /\ pc = "returned") => i = first.iters

\* C5 as stated: on the test graph the first and second iterations report
\* new pairs > 0 and the third reports 0.
C5_TwoProductiveIterations ==
  (graph = TestGraph /\ pc = "returned") =>
    /\ Len(printed) = 3
    /\ printed[1] > 0
    /\ printed[2] > 0
    /\ printed[3] = 0

IsPrefix(s, t) == Len(s) <= Len(t) /\ SubSeq(t, 1, Len(s)) = s

\* C5 amended: on the test graph the first three iterations report new
\* pairs > 0 (4, 9 and 4) and the fourth iteration reports 0.
C5_ThreeProductiveIterations ==
  graph = TestGraph =>
    /\ IsPrefix(printed, <<4, 9, 4, 0>>)
    /\ pc = "returned" => (printed = <<4, 9, 4, 0>> /\ i = 4)

C5_Witness ==
  /\ graph = TestGraph
  /\ pc = "returned"
  /\ call = 1
  /\ printed = <<4, 9, 4, 0>>


\* C6: process() run again on what a run of process() returned, with the
\* same variant, reports 0 new pairs in its first iteration and returns the
\* same edges.
C6_Idempotent ==
  call = 2 =>
    /\ Len(printed) >= 1 => printed[1] = 0
    /\ pc = "returned" => (rdd = first.output /\ i = 1)

C6_Witness ==
  /\ call = 2
  /\ pc = "returned"
  /\ printed = <<0>>
  /\ rdd = first.output
  /\ BagCardinality(rdd) >= 2
  /\ first.iters >= 3
  /\ sorting

\* representative(n) in the edges r: the smallest identifier among n and
\* the targets of the edges of r with source n
Rep(n, r) == SetMin({n} \cup {e[2] : e \in {x \in DOMAIN r : x[1] = n}})

\* C7: in the returned edges every target is <= its source, no target of
\* an edge is the source of an edge with another target, and
\* representative(representative(n)) = representative(n) for every node.
C7_RepresentativeValid ==
  pc = "returned" =>
    /\ \A e \in DOMAIN rdd : e[2] <= e[1]
    /\ \A e \in DOMAIN rdd : \A f \in DOMAIN rdd : f[1] = e[2] => f[2] = e[2]
    /\ \A n \in NodesOf(graph) :
         /\ Rep(n, rdd) <= n
         /\ Rep(Rep(n, rdd), rdd) = Rep(n, rdd)

C7_Witness ==
  /\ pc = "returned"
  /\ call = 2
  /\ i >= 3
  /\ \E n \in NodesOf(graph) :
       /\ Rep(n, rdd) < n
       /\ Rep(n, rdd) < Rep(n, graph)
       /\ Rep(Rep(n, rdd), rdd) = Rep(n, rdd)

\* C8: an iteration of either variant never increases the representative
\* of a node.
C8_Monotone ==
  [][(pc = "loop" /\ pc' = "loop" /\ i' = i + 1) =>
       \A n \in NodesOf(graph) : Rep(n, rdd') <= Rep(n, rdd)]_vars

C8_Witness ==
  /\ pc = "loop"
  /\ sorting
  /\ i >= 2
  /\ \E n \in NodesOf(graph) :
       Rep(n, rdd) < Rep(n, graph) /\ Rep(n, graph) < n

\* C9: after every iteration of either variant every edge (n, m) handed to
\* the next iteration has m <= n.
C9_TargetNotGreater ==
  i >= 1 => \A e \in DOMAIN rdd : e[2] <= e[1]

C9_Witness ==
  /\ i >= 1
  /\ pc = "loop"
  /\ sorting
  /\ new_pairs > 0
  /\ \E e \in DOMAIN rdd : e[2] = e[1]
  /\ \E e \in DOMAIN rdd : e[2] < e[1]

\* C10: two inputs with the same undirected edges, differing by repeated
\* or reversed edges only, give the same returned edges, in either variant.
C10_SameMapping ==
  (call = 2 /\ pc = "returned") => BagToSet(rdd) = BagToSet(first.output)

C10_Witness ==
  /\ call = 2
  /\ pc = "returned"
  /\ sorting
  /\ graph = SetToBag({<<1, 2>>})
  /\ graph2 = (<<1, 2>> :> 2) @@ (<<2, 1>> :> 1)
  /\ BagToSet(rdd) = {<<2, 1>>}
  /\ BagToSet(first.output) = {<<2, 1>>}

\* C11 as stated: on an empty input the driver stops with its iteration
\* counter at 0 and returns an empty mapping.
C11_ZeroIterations ==
  (graph = EmptyBag /\ pc = "returned") => (i = 0 /\ rdd = EmptyBag)

\* C11 amended: on an empty input the driver runs exactly one iteration,
\* which reports 0 new pairs, and returns an empty mapping.
C11_OneIteration ==
  graph = EmptyBag =>
    /\ i <= 1
    /\ rdd = EmptyBag
    /\ pc = "returned" => (i = 1 /\ printed = <<0>>)

C11_Witness ==
  /\ graph = EmptyBag
  /\ pc = "returned"
  /\ call = 2
  /\ i = 1
  /\ first.iters = 1
  /\ rdd = EmptyBag

\* an input made of self-loops only, and of at least one
OnlySelfLoops(g) == g # EmptyBag /\ \A e \in DOMAIN g : e[1] = e[2]

\* C12: on an input made of self-loops only the first iteration reports 0
\* new pairs, it is the only iteration, and every node of the input is its
\* own representative in the returned mapping.
C12_SelfLoops ==
  OnlySelfLoops(graph) =>
    /\ Len(printed) >= 1 => printed[1] = 0
    /\ pc = "returned" =>
         /\ i = 1
         /\ \A n \in NodesOf(graph) : Rep(n, rdd) = n

C12_Witness ==
  /\ graph = SetToBag({<<3, 3>>})
  /\ pc = "returned"
  /\ call = 2
  /\ printed = <<0>>
  /\ first.printed = <<0>>
  /\ Rep(3, rdd) = 3

\* C13: the driver stops exactly at the first iteration that reports 0 new
\* pairs: every printed count but the last is > 0, the loop cannot return
\* while the last count is > 0 and can then take another iteration, and a
\* returned call has printed 0 last.
C13_StopsAtFirstZero ==
  /\ Len(printed) = i
  /\ \A j \in 1..(Len(printed) - 1) : printed[j] > 0
  /\ (pc = "loop" /\ printed # <<>> /\ printed[Len(printed)] > 0) => IterateEnabled
  /\ (pc = "loop" /\ printed # <<>> /\ printed[Len(printed)] = 0) => ~IterateEnabled
  /\ pc = "returned" => (printed # <<>> /\ printed[Len(printed)] = 0)

C13_Witness ==
  /\ pc = "returned"
  /\ sorting
  /\ Len(printed) = 3
  /\ printed[1] > 0
  /\ printed[2] > 0
  /\ printed[3] = 0

\* ------------------------------------------- adjacency records, restated
\* how many times v is in the value list of key n when r is grouped: once
\* for each copy of (n, v) and once for each copy of (v, n)
Occ(n, v, r) ==
  (IF <<n, v>> \in DOMAIN r THEN r[<<n, v>>] ELSE 0)
    + (IF <<v, n>> \in DOMAIN r THEN r[<<v, n>>] ELSE 0)

\* the distinct values of the adjacency record of n
Neighbours(n, r) == {v \in NodesOf(r) : Occ(n, v, r) > 0}

\* m = min(V)
AdjMin(n, r) == SetMin(Neighbours(n, r))

\* the entries of V, each copy of a value apart
Entries(n, r) == UNION {{v} \X (1..Occ(n, v, r)) : v \in Neighbours(n, r)}

\* the entries v of V with v # m
OtherEntries(n, r) == {p \in Entries(n, r) : p[1] # AdjMin(n, r)}

\* |{v in V : v # m}| + 1 when n > m, else 0
ClaimedContribution(n, r) ==
  IF n > AdjMin(n, r) THEN Cardinality(OtherEntries(n, r)) + 1 ELSE 0

ClaimedCount(r) ==
  Cardinality(UNION {{n} \X (1..ClaimedContribution(n, r)) : n \in NodesOf(r)})

\* the entries of V different from m when n > m, else 0
BatchContribution(n, r) ==
  IF n > AdjMin(n, r) THEN Cardinality(OtherEntries(n, r)) ELSE 0

\* the entries of V less one when n > m, else 0
SortedContribution(n, r) ==
  IF n > AdjMin(n, r) THEN Cardinality(Entries(n, r)) - 1 ELSE 0

ExpectedCount(r, srt) ==
  Cardinality(UNION {{n} \X (1..(IF srt THEN SortedContribution(n, r)
                                        ELSE BatchContribution(n, r)))
                      : n \in NodesOf(r)})

\* C14 as stated: the new-pairs count of an iteration is the sum over the
\* keys n > m of |{v in V : v # m}| + 1.
C14_CountWithKeyPair ==
  [][(i' = i + 1) => new_pairs' = ClaimedCount(rdd)]_vars

\* C14 amended: a record (n, V) with n > m = min(V) contributes the number
\* of entries of V different from m in the batch variant and the number of
\* entries of V less one in the sorted variant, with no + 1 for the pair
\* (n, m); a record with n <= m contributes 0; the count is the sum.
C14_CountWithoutKeyPair ==
  [][(i' = i + 1) => new_pairs' = ExpectedCount(rdd, sorting)]_vars

C14_Witness ==
  /\ call = 2
  /\ pc = "loop"
  /\ i = 1
  /\ new_pairs >= 2
  /\ new_pairs = ExpectedCount(graph, TRUE)
  /\ first.printed[1] >= 2
  /\ first.printed[1] = ExpectedCount(graph, FALSE)
  /\ first.printed[1] < ClaimedCount(graph)

\* the keys n of r with n > m = min(V)
EmittingKeys(r) == {n \in NodesOf(r) : n > AdjMin(n, r)}

\* (n, m), and (v, m) for every v in V with v # m, for the keys n > m
ExpectedEmitBatch(r) ==
  UNION {{<<n, AdjMin(n, r)>>}
           \cup {<<v, AdjMin(n, r)>> : v \in Neighbours(n, r) \ {AdjMin(n, r)}}
         : n \in EmittingKeys(r)}

\* C15: an iteration of CFF_iterate emits, for every key n > m = min(V),
\* the edge (n, m) and the edges (v, m) of the v in V with v # m, nothing
\* for a key n <= m, and no other edge.
C15_BatchEmission ==
  [][(i' = i + 1 /\ ~sorting) => BagToSet(rdd') = ExpectedEmitBatch(rdd)]_vars

C15_Witness ==
  /\ call = 1
  /\ pc = "loop"
  /\ i = 1
  /\ BagToSet(rdd) = ExpectedEmitBatch(graph)
  /\ Cardinality(BagToSet(rdd)) >= 3
  /\ \E n \in NodesOf(graph) : n < AdjMin(n, graph)
  /\ \E n \in NodesOf(graph) : n = AdjMin(n, graph)
  /\ \E n \in EmittingKeys(graph) : Cardinality(Neighbours(n, graph)) >= 2

\* the records of key k among the records recs
OfKey(recs, k) == {x \in recs : x.key = k}

\* C16: for every adjacency record, the sorted reduction emits the same
\* edges and counts the same new pairs as the batch reduction.
C16_SameRecordResult ==
  \A k \in Keys(emit_pairs(rdd)) :
    /\ BagToSet(emit_tot_sorted(OfKey(SortedRecords(rdd), k)))
         = BagToSet(emit_tot_batch(OfKey(BatchRecords(rdd), k)))
    /\ CountSorted(OfKey(SortedRecords(rdd), k))
         = CountBatch(OfKey(BatchRecords(rdd), k))

\* C17 as stated: the iteration that counts 0 new pairs leaves the edge set
\* as it was.
C17_ZeroKeepsEdgeSet ==
  [][(i' = i + 1 /\ new_pairs' = 0) => rdd' = rdd]_vars

\* C17 amended: the iteration that counts 0 new pairs replaces the edge set
\* too, by the pairs (n, min(V)) of the keys n > min(V), and that edge set
\* is what the call returns.
C17_ZeroReplacesEdgeSet ==
  [][/\ (i' = i + 1 /\ new_pairs' = 0) =>
          rdd' = SetToBag({<<n, AdjMin(n, rdd)>> : n \in EmittingKeys(rdd)})
     /\ (pc = "loop" /\ pc' = "returned") => rdd' = rdd]_vars

C17_Witness ==
  /\ pc = "returned"
  /\ call = 1
  /\ i = 1
  /\ new_pairs = 0
  /\ graph = SetToBag({<<1, 2>>})
  /\ rdd = SetToBag({<<2, 1>>})

\* what the reduction stage of the running variant emits on r
Emitted(r, srt) ==
  IF srt THEN emit_tot_sorted(SortedRecords(r)) ELSE emit_tot_batch(BatchRecords(r))

\* C18: what an iteration returns holds every pair the reduction stage
\* emitted exactly once, and no other pair.
C18_DedupOnce ==
  [][(i' = i + 1) =>
       /\ DOMAIN rdd' = DOMAIN Emitted(rdd, sorting)
       /\ \A e \in DOMAIN rdd' : rdd'[e] = 1]_vars

C18_Witness ==
  /\ call = 1
  /\ pc = "loop"
  /\ i = 1
  /\ \E e \in DOMAIN Emitted(graph, FALSE) :
       Emitted(graph, FALSE)[e] >= 2 /\ rdd[e] = 1
  /\ IsSet(rdd)

\* C19: an iteration on E and an iteration on E with edges repeated or with
\* reverse edges added report the same new-pairs count.
C19_SameCountWithDuplicates ==
  (call = 2 /\ i >= 1 /\ graph \sqsubseteq graph2) =>
    printed[1] = first.printed[1]

\* C20 as stated: the new-pairs count is the number of emitted edges that
\* were not in the iteration's input.
C20_CountsAbsentEdges ==
  [][(i' = i + 1) =>
       new_pairs' = Cardinality(BagToSet(rdd') \ BagToSet(rdd))]_vars

\* C20 amended: the new-pairs count is the number of pairs (val, min)
\* emitted by emit_2, repeated pairs and pairs already in the iteration's
\* input included; when it is 0 only the pairs (key, min) were emitted.
C20_CountsNeighbourPairs ==
  [][(i' = i + 1) =>
       /\ new_pairs' = BagCardinality(IF sorting THEN emit_2_sorting(SortedRecords(rdd))
                                                ELSE emit_2(BatchRecords(rdd)))
       /\ new_pairs' = 0 =>
            BagToSet(rdd') = {<<n, AdjMin(n, rdd)>> : n \in EmittingKeys(rdd)}]_vars

C20_Witness ==
  /\ pc = "loop"
  /\ i = 3
  /\ graph = TestGraph
  /\ printed = <<4, 9, 4>>
  /\ BagToSet(rdd) = ExpectedTestGraph

\* ------------------------------------------------------------------- C21
SetMax(S) == CHOOSE m \in S : \A v \in S : m >= v

\* n and the nodes one undirected edge away from n
Around(n, g) ==
  {n} \cup {e[2] : e \in {x \in DOMAIN g : x[1] = n}}
      \cup {e[1] : e \in {x \in DOMAIN g : x[2] = n}}

RECURSIVE Layers(_, _, _)
\* the number of breadth-first layers after S until no node is added to S
Layers(S, k, g) ==
  LET T == UNION {Around(n, g) : n \in S}
  IN IF T = S THEN k ELSE Layers(T, k + 1, g)

\* the greatest shortest-path distance, in edges, from n to a node of g
Eccentricity(n, g) == Layers({n}, 0, g)

\* the diameter of the component of g that holds n
DiameterAt(n, g) == SetMax({Eccentricity(v, g) : v \in Reach({n}, g)})

\* the nodes of the connected components of g that have the most nodes
InLargest(g) ==
  {n \in NodesOf(g) :
     \A v \in NodesOf(g) : Cardinality(Reach({n}, g)) >= Cardinality(Reach({v}, g))}

\* the diameter of the largest component of g, the greater one on a tie
DiameterOfLargest(g) == SetMax({0} \cup {Eccentricity(n, g) : n \in InLargest(g)})

\* the greatest diameter of a connected component of g
GreatestDiameter(g) == SetMax({0} \cup {Eccentricity(n, g) : n \in NodesOf(g)})

\* C21 as stated: the driver runs at most diameter - 1 iterations before
\* convergence, the diameter being that of the largest connected component
\* of the input.  Read in the claim's favour: the last iteration, the one
\* that counts zero new pairs, is not counted, and only inputs with an edge
\* between two distinct nodes are looked at.
C21_DiameterMinusOne ==
  (pc = "returned" /\ DiameterOfLargest(graph) >= 1) =>
    i - 1 <= DiameterOfLargest(graph) - 1

\* C21 amended: the iterations that count new pairs are at most one more
\* than the greatest diameter of a connected component of the input, so the
\* driver runs at most that diameter plus two iterations in all.
C21_DiameterPlusTwo ==
  i <= GreatestDiameter(graph) + 2

C21_Witness ==
  /\ pc = "returned"
  /\ graph = DeepGraph
  /\ GreatestDiameter(graph) = 3
  /\ printed[i] = 0
  /\ i = 5
  /\ \A k \in 1..(i - 1) : printed[k] > 0

\* ------------------------------------------------------------------- C22
\* the nodes other than a that an undirected path of g joins to a
ConnectedTo(a, g) == Reach({a}, g) \ {a}

\* C22: an iteration of either variant keeps connectivity: two distinct
\* nodes of the input are joined by an undirected path in the edge set the
\* iteration returns exactly when they are joined by one in the edge set it
\* was given; no two components are merged and none is split.
C22_ConnectivityPreserved ==
  [][(i' = i + 1) =>
       \A a \in NodesOf(graph) : ConnectedTo(a, rdd') = ConnectedTo(a, rdd)]_vars

C22_Witness ==
  /\ pc = "loop"
  /\ i >= 2
  /\ sorting
  /\ \E e \in DOMAIN rdd :
       e[1] # e[2] /\ e \notin DOMAIN graph /\ <<e[2], e[1]>> \notin DOMAIN graph
  /\ \E a, b \in NodesOf(rdd) :
       /\ b \notin Reach({a}, rdd)
       /\ ConnectedTo(a, rdd) # {}
       /\ ConnectedTo(b, rdd) # {}
       /\ ConnectedTo(a, rdd) = ConnectedTo(a, graph)

\* ------------------------------------------------------------------- C23
\* C23: every edge (a, b) of the edge set returned by an iteration of the
\* batch variant has b < a strictly, whatever self-loops, repeated edges
\* and reciprocal edges the input has; the batch variant never returns a
\* self-edge (m, m).
C23_BatchTargetSmaller ==
  [][(i' = i + 1 /\ ~sorting) => \A e \in DOMAIN rdd' : e[2] < e[1]]_vars

C23_Witness ==
  /\ ~sorting
  /\ i = 1
  /\ rdd # EmptyBag
  /\ \E e \in DOMAIN graph : e[1] = e[2]
  /\ \E e \in DOMAIN graph : graph[e] >= 2
  /\ \E e \in DOMAIN graph : e[1] # e[2] /\ <<e[2], e[1]>> \in DOMAIN graph
  /\ \A e \in DOMAIN rdd : e[2] < e[1]

\* ------------------------------------------------------------------- C24
\* the number of nodes of the largest connected component of g
LargestComponentSize(g) ==
  SetMax({Cardinality(Reach({n}, g)) : n \in NodesOf(g)})

\* C24: the largest-component size reported after a run, batch or sorted,
\* is the number of nodes of the largest connected component of the input,
\* so the sorted run reports what the batch run reported.  Runs that return
\* no edge report nothing and are left out.
C24_ReportsLargestComponent ==
  (pc = "returned" /\ rdd # EmptyBag) =>
    /\ largest_component = <<LargestComponentSize(graph)>>
    /\ call = 2 => largest_component = first.largest_component

====
